---- MODULE Spec2Model ----
(***************************************************************************)
(* Query execution core of the GraphQL gateway:                            *)
(*   - Dedupe   (src/core/data_loader/dedupe.rs)                           *)
(*   - Executor (src/core/jit/exec.rs)                                     *)
(*   - Synth    (src/core/jit/synth/synth.rs)                              *)
(*   - QueryPlanBuilder (src/core/ir/jit/mod.rs)                           *)
(***************************************************************************)
EXTENDS Integers, Sequences, FiniteSets, TLC

(***************************************************************************)
(* Bounds                                                                  *)
(***************************************************************************)
MaxCalls == 3
NumKeys == 2
MaxLen == 2
MaxOps == 2
MaxDepth == 3
MaxPlans == 4

(***************************************************************************)
(* Dedupe<Key, Value>                                                      *)
(***************************************************************************)
VARIABLES
    persist,    \* Dedupe.persist
    cache,      \* Dedupe.cache : key -> State (Absent when the map has no entry)
    phase,      \* position of each dedupe call (future)
    ckey,       \* key argument of each call
    sub,        \* the channel a call holds a Receiver of (Step::Await)
    result,     \* value returned by a finished call
    ran,        \* number of times the call's or_else closure was invoked
    senders,    \* channels whose Arc<broadcast::Sender> is still alive
    sent,       \* the value broadcast on each channel (NoValue before the send)
    found,      \* history: what Dedupe::step found in the cache for the call
    inflight,   \* history: calls for the same key in flight when the call started
    prior       \* history: values already returned for the key when the call started

dedupeVars == <<persist, cache, phase, ckey, sub, result, ran, senders, sent,
                found, inflight, prior>>

\* state of the JIT executor and synthesizer
VARIABLES
    isList,     \* Field.type_of.is_list() of every plan field
    hasIr,      \* Field.ir.is_some() of every plan field
    nullable,   \* Field.type_of.is_nullable() of every plan field
    skipped,    \* Field.skip(variables) of every plan field under the request
    started,    \* ExecutorInner::init has spawned the root branches
    tasks,      \* the execute() futures: (field, position) -> pc, data_path, ctx, result
    store,      \* Store: (FieldId, DataPath) -> Result
    setCount,   \* history: number of Store::set calls per (FieldId, DataPath)
    response,   \* the result of Synth::synthesize for the finished run
    evalCount,  \* history: number of IR evaluations per (FieldId, DataPath)
    storeLock,  \* holders of a MutexGuard of the Store mutex (empty: unlocked)
    dropped     \* the future of Executor::execute was dropped before completing

jitVars == <<isList, hasIr, nullable, skipped, started, tasks, store, setCount, response,
             evalCount, storeLock, dropped>>

\* state of QueryPlanBuilder::build
VARIABLES
    document,        \* the ExecutableDocument passed to build
    fields,          \* create_field_set: `fields`
    fieldId,         \* create_field_set: `id`, the next FieldId
    argId,           \* create_field_set: `arg_id`, the next ArgId
    todoFragments,   \* entries of document.fragments not yet iterated
    todoOperations,  \* entries of document.operations not yet iterated
    built,           \* the value build returned (None while it runs)
    executionPlan    \* ExecutionPlan::new of the built fields (None before)

builderVars == <<document, fields, fieldId, argId, todoFragments, todoOperations,
                 built, executionPlan>>

\* state of GeneralPlan::from_operation
VARIABLES
    definitions,   \* the type definitions passed to from_operation
    callStack,     \* the active calls of FieldTree::from_operation, innermost last
    fieldPlans,    \* field_plans
    generalPlan    \* the GeneralPlan returned (None while none was returned)

planVars == <<definitions, callStack, fieldPlans, generalPlan>>

vars == <<dedupeVars, jitVars, builderVars, planVars>>

Calls == 1 .. MaxCalls
Keys == 1 .. NumKeys
NoValue == 0
NoKey == 0

\* enum State<Value>; Absent stands for "no entry in the HashMap"
Absent == [tag |-> "Absent"]
Ready(v) == [tag |-> "Ready", value |-> v]
Pending(t) == [tag |-> "Pending", tx |-> t]

\* The value the or_else closure of call c computes (each caller passes its own closure)
ValueOf(c) == c

\* DedupeResult: Value = Result<V, E>. The closure of call c yields Ok(ValueOf(c))
\* or its own error Err(c); Dedupe only clones values, so Ok(v) is written v and
\* Err(c) is written as the token MaxCalls + c.
ErrOf(c) == MaxCalls + c
IsErr(v) == v > MaxCalls
\* the outcomes of or_else().await
Computed(c) == {ValueOf(c), ErrOf(c)}

\* A channel is named after the call that created it in Dedupe::step
UpgradeAlways(t) == TRUE
UpgradeNever(t) == FALSE
\* Weak::upgrade succeeds while a strong Arc<Sender> exists
Upgrade(t) == t \in senders

StepNoCache(k) == [step |-> "Init"]
StepReadyIgnored(k) ==
    IF cache[k].tag = "Pending" /\ Upgrade(cache[k].tx)
    THEN [step |-> "Await", rx |-> cache[k].tx]
    ELSE [step |-> "Init"]
\* Dedupe::step: the decision taken under the cache lock
StepOf(k) ==
    IF cache[k].tag = "Ready" THEN [step |-> "Return", value |-> cache[k].value]
    ELSE IF cache[k].tag = "Pending" /\ Upgrade(cache[k].tx)
         THEN [step |-> "Await", rx |-> cache[k].tx]
         ELSE [step |-> "Init"]

\* what step saw, recorded for the properties
Seen(k) ==
    IF cache[k].tag = "Pending"
    THEN (IF cache[k].tx \in senders THEN "PendingLive" ELSE "PendingDead")
    ELSE cache[k].tag

InFlight(k) == {d \in Calls : phase[d] \in {"Init", "Await"} /\ ckey[d] = k}

\* the values dedupe has already returned to finished calls for key k
Returned(k) == {result[d] : d \in {e \in Calls : phase[e] = "done" /\ ckey[e] = k}}

DedupeInit ==
    /\ persist \in BOOLEAN
    /\ cache = [k \in Keys |-> Absent]
    /\ phase = [c \in Calls |-> "idle"]
    /\ ckey = [c \in Calls |-> NoKey]
    /\ sub = [c \in Calls |-> 0]
    /\ result = [c \in Calls |-> NoValue]
    /\ ran = [c \in Calls |-> 0]
    /\ senders = {}
    /\ sent = [c \in Calls |-> NoValue]
    /\ found = [c \in Calls |-> "none"]
    /\ inflight = [c \in Calls |-> {}]
    /\ prior = [c \in Calls |-> {}]

\* Dedupe::dedupe up to its first suspension point: step(), then either the
\* cached value is returned, or the receiver is awaited, or or_else() is invoked.
DedupeCall(c, k) ==
    /\ phase[c] = "idle"
    /\ ckey' = [ckey EXCEPT ![c] = k]
    /\ found' = [found EXCEPT ![c] = Seen(k)]
    /\ inflight' = [inflight EXCEPT ![c] = InFlight(k)]
    /\ prior' = [prior EXCEPT ![c] = Returned(k)]
    /\ LET s == StepOf(k) IN
       CASE s.step = "Return" ->
              /\ phase' = [phase EXCEPT ![c] = "done"]
              /\ result' = [result EXCEPT ![c] = s.value]
              /\ UNCHANGED <<cache, sub, ran, senders>>
         [] s.step = "Await" ->
              /\ phase' = [phase EXCEPT ![c] = "Await"]
              /\ sub' = [sub EXCEPT ![c] = s.rx]
              /\ UNCHANGED <<cache, result, ran, senders>>
         [] s.step = "Init" ->
              /\ cache' = [cache EXCEPT ![k] = Pending(c)]
              /\ senders' = senders \cup {c}
              /\ phase' = [phase EXCEPT ![c] = "Init"]
              /\ ran' = [ran EXCEPT ![c] = @ + 1]
              /\ UNCHANGED <<sub, result>>
    /\ UNCHANGED <<persist, sent>>
    /\ UNCHANGED <<jitVars, builderVars, planVars>>

PublishEvict(k, v) == Absent
PublishKeep(k, v) == Ready(v)
\* the cache update of the owner after or_else().await
Publish(k, v) == IF persist THEN Ready(v) ELSE Absent

\* Dedupe::dedupe, Step::Init arm after or_else().await: lock, insert or remove,
\* tx.send, return the value (tx is dropped with the future).
OwnerFinish(c) ==
    /\ phase[c] = "Init"
    /\ \E value \in Computed(c) :
       /\ cache' = [cache EXCEPT ![ckey[c]] = Publish(ckey[c], value)]
       /\ sent' = [sent EXCEPT ![c] = value]
       /\ result' = [result EXCEPT ![c] = value]
    /\ senders' = senders \ {c}
    /\ phase' = [phase EXCEPT ![c] = "done"]
    /\ UNCHANGED <<persist, ckey, sub, ran, found, inflight, prior>>
    /\ UNCHANGED <<jitVars, builderVars, planVars>>

RecvOkOnly(t) == IF IsErr(sent[t]) THEN ValueOf(t) ELSE sent[t]
\* broadcast::Receiver::recv once the value is in the channel: a clone of what
\* the owner sent
Recv(t) == sent[t]

\* Dedupe::dedupe, Step::Await arm: rx.recv().await.unwrap()
\* recv yields the broadcast value, or Err(Closed) once the sender is gone
\* without having sent; unwrap then panics.
WaiterRecv(c) ==
    /\ phase[c] = "Await"
    /\ \/ /\ sent[sub[c]] # NoValue
          /\ phase' = [phase EXCEPT ![c] = "done"]
          /\ result' = [result EXCEPT ![c] = Recv(sub[c])]
       \/ /\ sent[sub[c]] = NoValue
          /\ sub[c] \notin senders
          /\ phase' = [phase EXCEPT ![c] = "panicked"]
          /\ UNCHANGED result
    /\ UNCHANGED <<persist, cache, ckey, sub, ran, senders, sent, found, inflight,
                   prior>>
    /\ UNCHANGED <<jitVars, builderVars, planVars>>

\* The future of a call is dropped at its suspension point (e.g. by a timeout):
\* an owner's Arc<Sender> dies with it, the cache entry is left as it is.
Cancel(c) ==
    /\ phase[c] \in {"Init", "Await"}
    /\ phase' = [phase EXCEPT ![c] = "dropped"]
    /\ senders' = senders \ {c}
    /\ UNCHANGED <<persist, cache, ckey, sub, result, ran, sent, found, inflight,
                   prior>>
    /\ UNCHANGED <<jitVars, builderVars, planVars>>


(***************************************************************************)
(* JIT executor and synthesizer                                            *)
(***************************************************************************)

\* JSON values (JsonLike)
NoVal == [t |-> "none"]   \* Option::None
Null == [t |-> "null"]
Num(n) == [t |-> "num", n |-> n]
Obj(o) == [t |-> "obj", o |-> o]
Arr(a) == [t |-> "arr", a |-> a]

\* Result<Value, Error>; None marks "no result yet"
Ok(v) == [tag |-> "Ok", val |-> v]
Err(e) == [tag |-> "Err", err |-> e]
None == [tag |-> "None"]

\* The operation plan: { posts { heading: title user { name } } b }
Fields == 1 .. 5
Roots == <<1, 2>>
Parent(f) == <<0, 0, 1, 1, 3>>[f]
Children(f) == <<(<<3, 4>>), (<<>>), (<<5>>), (<<>>), (<<>>)>>[f]
Name(f) == <<"posts", "b", "user", "title", "name">>[f]
OutputName(f) == <<"posts", "b", "user", "heading", "name">>[f]
IsScalar(f) == f \in {2, 4, 5}
Skip(f) == skipped[f]

Range(s) == {s[i] : i \in 1 .. Len(s)}
IsPrefix(p, q) == Len(p) <= Len(q) /\ SubSeq(q, 1, Len(p)) = p

RECURSIVE IsDescendant(_, _)
\* d lies strictly below f in the plan tree
IsDescendant(d, f) ==
    /\ Parent(d) # 0
    /\ (Parent(d) = f \/ IsDescendant(Parent(d), f))

\* What the upstream resolvers can return
UserObj == Obj([name |-> Num(7)])
PostElem(i) == Obj([title |-> Num(i), user |-> Obj([name |-> Num(i)])])
Posts(n) == Arr([i \in 1 .. n |-> PostElem(i - 1)])
PostNoTitle == Obj([user |-> UserObj])
ResolverError(f) == Err([kind |-> "Resolver", field |-> f])

\* IRExecutor::execute: every outcome the evaluation of a field's IR can have
IRResults(f) ==
    {ResolverError(f)} \cup
    CASE f = 1 -> {Ok(Null), Ok(PostElem(0)), Ok(PostNoTitle)} \cup {Ok(Posts(n)) : n \in 0 .. MaxLen}
      [] f = 3 -> {Ok(Null), Ok(UserObj)}
      [] f = 5 -> {Ok(Null), Ok(Num(7))}
      [] OTHER -> {Ok(Num(1))}

WithIndexDropped(path, i) == path
\* DataPath::with_index
WithIndex(path, i) == Append(path, i)

KidsHeadOnly(f, pos, path, r) ==
    IF r.tag # "Ok" THEN {}
    ELSE IF isList[f]
         THEN IF r.val.t = "arr" /\ Len(r.val.a) > 0
              THEN {[f |-> c, pos |-> Append(pos, 0), path |-> WithIndex(path, 0),
                     ctx |-> r.val.a[1]] : c \in Range(Children(f))}
              ELSE {}
         ELSE {[f |-> c, pos |-> pos, path |-> path, ctx |-> r.val] :
                 c \in Range(Children(f))}
KidsEvenOnErr(f, pos, path, r) ==
    {[f |-> c, pos |-> pos, path |-> path, ctx |-> Null] : c \in Range(Children(f))}
KidsWholeValue(f, pos, path, r) ==
    IF r.tag # "Ok" THEN {}
    ELSE {[f |-> c, pos |-> pos, path |-> path, ctx |-> r.val] : c \in Range(Children(f))}
\* ExecutorInner::execute: the child branches a field fans out into once its
\* IR returned r (one per child and list element, or one per child)
Kids(f, pos, path, r) ==
    IF r.tag # "Ok" THEN {}
    ELSE IF isList[f]
         THEN IF r.val.t = "arr"
              THEN {[f |-> c, pos |-> Append(pos, i), path |-> WithIndex(path, i),
                     ctx |-> r.val.a[i + 1]] :
                       c \in Range(Children(f)), i \in 0 .. Len(r.val.a) - 1}
              ELSE {}
         ELSE {[f |-> c, pos |-> pos, path |-> path, ctx |-> r.val] :
                 c \in Range(Children(f))}

\* a child branch as a task: a field without IR returns Ok(()) at once
NewTask(k) ==
    [pc |-> IF hasIr[k.f] THEN "eval" ELSE "done",
     path |-> k.path, ctx |-> k.ctx, res |-> None, ret |-> IF hasIr[k.f] THEN "none" ELSE "Ok"]

Spawn(kids) == [id \in {<<k.f, k.pos>> : k \in kids} |->
                  NewTask(CHOOSE k \in kids : <<k.f, k.pos>> = id)]

\* Store::set
StoreSet(st, f, path, r) ==
    [k \in DOMAIN st \cup {<<f, path>>} |-> IF k = <<f, path>> THEN r ELSE st[k]]

CountSet(cnt, f, path) ==
    [k \in DOMAIN cnt \cup {<<f, path>>} |->
        IF k = <<f, path>> THEN (IF k \in DOMAIN cnt THEN cnt[k] + 1 ELSE 1) ELSE cnt[k]]

WrittenOnlyOk(f, r) == hasIr[f] /\ r.tag = "Ok"
\* execute writes the Store inside `if let Some(ir)`, whatever the result
Written(f, r) == hasIr[f]

JoinReadyAlways(id) == TRUE
\* join_all over the child branches has completed
JoinReady(id) ==
    \A k \in Kids(id[1], id[2], tasks[id].path, tasks[id].res) :
        /\ <<k.f, k.pos>> \in DOMAIN tasks
        /\ tasks[<<k.f, k.pos>>].pc = "done"

\* the fixed plan attributes
PlanShape ==
    /\ isList \in {[f \in Fields |-> f = 1], [f \in Fields |-> FALSE]}
    /\ hasIr \in {[f \in Fields |-> f # 4], [f \in Fields |-> f \notin {3, 4}],
                  [f \in Fields |-> f \notin {2, 4}]}
    /\ nullable \in {[f \in Fields |-> TRUE], [f \in Fields |-> f # 5],
                     [f \in Fields |-> f # 3], [f \in Fields |-> f # 1]}
    /\ skipped \in {[f \in Fields |-> FALSE], [f \in Fields |-> f \in {2, 4}],
                    [f \in Fields |-> f = 3]}

JitInit ==
    /\ PlanShape
    /\ started = FALSE
    /\ tasks = <<>>
    /\ store = <<>>
    /\ setCount = <<>>
    /\ response = None
    /\ evalCount = <<>>
    /\ storeLock = {}
    /\ dropped = FALSE

\* ExecutorInner::init: one execute() per root field, empty DataPath, root context
ExecInit ==
    /\ ~started
    /\ started' = TRUE
    /\ tasks' = Spawn({[f |-> r, pos |-> <<>>, path |-> <<>>, ctx |-> NoVal] : r \in Range(Roots)})
    /\ UNCHANGED <<isList, hasIr, nullable, skipped, store, setCount, response>>
    /\ UNCHANGED <<evalCount, storeLock, dropped>>
    /\ UNCHANGED <<dedupeVars, builderVars, planVars>>

GuardKept(id) == {id}
\* the MutexGuard taken for store.set is a local of execute: it is released when
\* execute returns, and no await lies between the lock and the return
GuardAfterSet(id) == {}

\* the store write at the end of execute: lock, set, return
Finish(id, r) ==
    /\ IF Written(id[1], r)
       THEN /\ storeLock = {}
            /\ store' = StoreSet(store, id[1], tasks[id].path, r)
            /\ setCount' = CountSet(setCount, id[1], tasks[id].path)
            /\ storeLock' = GuardAfterSet(id)
       ELSE UNCHANGED <<store, setCount, storeLock>>

\* ExecutorInner::execute resumes with the result of ir_exec.execute(ir, ctx):
\* fans out into the children, and writes the Store at once when there is
\* nothing to wait for
IrDone(id, r) ==
    /\ started /\ ~dropped
    /\ id \in DOMAIN tasks
    /\ tasks[id].pc = "eval"
    /\ LET kids == Kids(id[1], id[2], tasks[id].path, r)
           waits == \E k \in kids : hasIr[k.f]
       IN  /\ tasks' = [x \in {id} |->
                           [tasks[id] EXCEPT !.pc = IF waits THEN "join" ELSE "done",
                                             !.res = r,
                                             !.ret = IF waits THEN "none" ELSE "Ok"]]
                       @@ Spawn(kids) @@ tasks
           /\ IF waits THEN UNCHANGED <<store, setCount, storeLock>> ELSE Finish(id, r)
    /\ evalCount' = CountSet(evalCount, id[1], tasks[id].path)
    /\ UNCHANGED <<isList, hasIr, nullable, skipped, started, response, dropped>>
    /\ UNCHANGED <<dedupeVars, builderVars, planVars>>

\* ExecutorInner::execute resumes after join_all and writes the Store
JoinDone(id) ==
    /\ ~dropped
    /\ id \in DOMAIN tasks
    /\ tasks[id].pc = "join"
    /\ JoinReady(id)
    /\ tasks' = [tasks EXCEPT ![id].pc = "done", ![id].ret = "Ok"]
    /\ Finish(id, tasks[id].res)
    /\ UNCHANGED <<isList, hasIr, nullable, skipped, started, response, evalCount, dropped>>
    /\ UNCHANGED <<dedupeVars, builderVars, planVars>>

\* The future of Executor::execute is dropped while init() is suspended on its
\* join_all: every branch is dropped at its await point together with the
\* locals it owns, a MutexGuard included.
ExecDrop ==
    /\ started /\ ~dropped
    /\ \E id \in DOMAIN tasks : tasks[id].pc \in {"eval", "join"}
    /\ dropped' = TRUE
    /\ storeLock' = storeLock \ DOMAIN tasks
    /\ UNCHANGED <<isList, hasIr, nullable, skipped, started, tasks, store, setCount,
                   response, evalCount>>
    /\ UNCHANGED <<dedupeVars, builderVars, planVars>>

RootsDone == started /\ \A r \in Range(Roots) : tasks[<<r, <<>>>>].pc = "done"

IncludeAlways(f) == TRUE
\* Synth::include
Include(f) == ~Skip(f)

GetKeyNone(obj, name) == NoVal
\* JsonObjectLike::get_key: Option<&Value>
GetKey(obj, name) == IF name \in DOMAIN obj THEN obj[name] ELSE NoVal

\* Synth::is_array: the type is a list exactly when the value is an array
IsArray(f, v) == isList[f] = (v.t = "arr")

\* the data paths under which the Store holds a result for field f
Entries(f) == {k[2] : k \in {x \in DOMAIN store : x[1] = f}}

\* Synth::iter: store.get(&node.id), then the walk down data_path through
\* Data::Multiple; a Data::Single met early or a Multiple met last give null,
\* an index missing from a Multiple makes the map lookup panic
Lookup(f, path) ==
    IF Entries(f) = {} THEN [tag |-> "None"]
    ELSE LET hits == {d \in 0 .. Len(path) : SubSeq(path, 1, d) \in Entries(f)} IN
         IF hits # {}
         THEN IF hits = {Len(path)}
              THEN [tag |-> "Single", res |-> store[<<f, path>>]]
              ELSE [tag |-> "Null"]
         ELSE IF \E e \in Entries(f) : IsPrefix(path, e)
              THEN [tag |-> "Null"]
              ELSE [tag |-> "Panic"]

\* enum PathSegment
PathSegmentField(name) == [segment |-> "Field", name |-> name]
PathSegmentIndex(i) == [segment |-> "Index", index |-> i]

RECURSIVE PathTo(_)
\* Synth::to_location_error: output names from the root field down to the node
PathTo(f) ==
    IF f = 0 THEN <<>> ELSE Append(PathTo(Parent(f)), PathSegmentField(OutputName(f)))

Located(kind, f) == Err([kind |-> kind, path |-> PathTo(f)])

\* scalar::Scalar::validate of the (built-in) scalar of the field
ScalarValidate(f, v) == TRUE

RECURSIVE Iter(_, _, _)
RECURSIVE IterInner(_, _, _)
RECURSIVE IterObject(_, _, _, _)
RECURSIVE IterArray(_, _, _, _, _)

\* Synth::iter
Iter(f, value, path) ==
    LET l == Lookup(f, path) IN
    CASE l.tag = "None" ->
           IF value.t = "none" THEN Ok(Null) ELSE IterInner(f, value, path)
      [] l.tag = "Null" -> Ok(Null)
      [] l.tag = "Panic" -> [tag |-> "Panic"]
      [] l.tag = "Single" ->
           IF l.res.tag = "Err" THEN l.res
           ELSE IF ~IsArray(f, l.res.val) THEN Ok(Null)
           ELSE IterInner(f, l.res.val, path)

\* Synth::iter_inner
IterInner(f, value, path) ==
    IF ~Include(f) THEN Ok(Null)
    ELSE IF value.t = "null"
         THEN (IF nullable[f] THEN Ok(Null) ELSE Located("ValueRequired", f))
    ELSE IF IsScalar(f)
         THEN (IF ScalarValidate(f, value) THEN Ok(value) ELSE Located("ScalarInvalid", f))
    ELSE IF value.t = "obj" THEN IterObject(Children(f), value.o, path, <<>>)
    ELSE IF value.t = "arr" THEN IterArray(f, value.a, path, 0, <<>>)
    ELSE Ok(value)

\* Synth::iter_inner, object arm: the loop over the children, `?` on each
IterObject(cs, obj, path, ans) ==
    IF cs = <<>> THEN Ok(Obj(ans))
    ELSE LET c == Head(cs) IN
         IF ~Include(c) THEN IterObject(Tail(cs), obj, path, ans)
         ELSE LET val == GetKey(obj, Name(c))
                  r == Iter(c, val, path)
              IN  IF r.tag # "Ok" THEN r
                  ELSE IterObject(Tail(cs), obj, path, (OutputName(c) :> r.val) @@ ans)

\* Synth::iter_inner, array arm: the loop over the elements, `?` on each
IterArray(f, arr, path, i, ans) ==
    IF i = Len(arr) THEN Ok(Arr(ans))
    ELSE LET r == IterInner(f, arr[i + 1], WithIndex(path, i)) IN
         IF r.tag # "Ok" THEN r
         ELSE IterArray(f, arr, path, i + 1, Append(ans, r.val))

RECURSIVE SynthRoots(_, _)
SynthRoots(rs, data) ==
    IF rs = <<>> THEN Ok(Obj(data))
    ELSE LET c == Head(rs) IN
         IF ~Include(c) THEN SynthRoots(Tail(rs), data)
         ELSE LET r == Iter(c, NoVal, <<>>) IN
              IF r.tag # "Ok" THEN r
              ELSE SynthRoots(Tail(rs), (OutputName(c) :> r.val) @@ data)

\* Synth::synthesize
Synthesize == SynthRoots(Roots, <<>>)

\* Executor::execute: once init() has joined every root branch the Store is
\* taken and synthesized into the response
SynthesizeResponse ==
    /\ RootsDone
    /\ response = None
    /\ storeLock = {}
    /\ response' = Synthesize
    /\ storeLock' = {}
    /\ UNCHANGED <<isList, hasIr, nullable, skipped, started, tasks, store, setCount>>
    /\ UNCHANGED <<evalCount, dropped>>
    /\ UNCHANGED <<dedupeVars, builderVars, planVars>>

(***************************************************************************)
(* QueryPlanBuilder                                                        *)
(***************************************************************************)

\* The field index of the blueprint (jsonplaceholder):
\*   Query { posts: [Post] @http   user(id: Int!): User @http }
\*   Post  { title: String         user: User @http }
\*   User  { name: String }
IndexedFields ==
    (<<"Query", "posts">> :> [of_type |-> "Post", resolver |-> TRUE, args |-> <<>>]) @@
    (<<"Query", "user">> :> [of_type |-> "User", resolver |-> TRUE,
                             args |-> [id |-> [required |-> TRUE]]]) @@
    (<<"Post", "title">> :> [of_type |-> "String", resolver |-> FALSE, args |-> <<>>]) @@
    (<<"Post", "user">> :> [of_type |-> "User", resolver |-> TRUE, args |-> <<>>]) @@
    (<<"User", "name">> :> [of_type |-> "String", resolver |-> FALSE, args |-> <<>>])

\* FieldIndex::get_query
GetQuery == "Query"
\* FieldIndex::get_field: Option<QueryField>, an Option being a sequence of
\* length at most one
GetField(type, name) ==
    IF <<type, name>> \in DOMAIN IndexedFields THEN <<IndexedFields[<<type, name>>]>>
    ELSE <<>>
\* QueryField::get_arg
GetArg(def, name) == IF name \in DOMAIN def.args THEN <<def.args[name]>> ELSE <<>>

\* async_graphql::parser::types: Selection, Value
FieldSel(name, arguments, sel) ==
    [kind |-> "Field", name |-> name, arguments |-> arguments, selection_set |-> sel]
FragmentSpread(name) == [kind |-> "FragmentSpread", name |-> name]
Number(n) == [kind |-> "Number", n |-> n]
Variable(v) == [kind |-> "Variable", name |-> v]
Argument(name, value) == [name |-> name, value |-> value]

\* MergeRight for Vec
MergeRight(a, b) == a \o b

RECURSIVE ResolveArgs(_, _, _, _)
\* resolve_selection_set, the loop over field_args: an Arg with a fresh ArgId
\* for every argument the field definition knows; other arguments are dropped
ResolveArgs(def, arguments, args, aid) ==
    IF arguments = <<>> THEN [args |-> args, arg_id |-> aid]
    ELSE LET a == Head(arguments) IN
         IF GetArg(def, a.name) # <<>>
         THEN ResolveArgs(def, Tail(arguments),
                          Append(args, [id |-> aid, name |-> a.name, value |-> a.value]),
                          aid + 1)
         ELSE ResolveArgs(def, Tail(arguments), args, aid)

RECURSIVE ResolveItems(_, _, _, _, _, _)
RECURSIVE ResolveSelectionSet(_, _, _, _, _)
ResolveSelectionSetParentLate(selection_set, fid, aid, current_type, parent) ==
    ResolveItems(selection_set, <<>>, fid, aid, current_type,
                 IF parent = <<>> THEN <<>> ELSE <<fid>>)
\* resolve_selection_set, the loop over selection_set.node.items with the
\* fields collected so far, the next FieldId and the next ArgId
ResolveItems(items, acc, fid, aid, current_type, parent) ==
    IF items = <<>> THEN [fields |-> acc, id |-> fid, arg_id |-> aid]
    ELSE LET selection == Head(items)
             field_def == IF selection.kind = "Field"
                          THEN GetField(current_type, selection.name)
                          ELSE <<>>
         IN  IF field_def = <<>>
             THEN ResolveItems(Tail(items), acc, fid, aid, current_type, parent)
             ELSE LET a == ResolveArgs(field_def[1], selection.arguments, <<>>, aid)
                      child_fields ==
                          ResolveSelectionSet(selection.selection_set, fid + 1, a.arg_id,
                                              field_def[1].of_type, <<fid>>)
                      field == [id |-> fid, name |-> selection.name,
                                ir |-> field_def[1].resolver,
                                type_of |-> field_def[1].of_type,
                                args |-> a.args, refs |-> parent]
                  IN  ResolveItems(Tail(items),
                                   MergeRight(Append(acc, field), child_fields.fields),
                                   child_fields.id, child_fields.arg_id,
                                   current_type, parent)

\* QueryPlanBuilder::resolve_selection_set; `parent` is an Option (<<>> or <<id>>)
ResolveSelectionSet(selection_set, fid, aid, current_type, parent) ==
    ResolveItems(selection_set, <<>>, fid, aid, current_type, parent)

\* The selection sets of the operations build is called with
SelPostsTitle == <<FieldSel("posts", <<>>, <<FieldSel("title", <<>>, <<>>)>>)>>
SelPostsUser ==
    <<FieldSel("posts", <<>>,
               <<FieldSel("user", <<>>, <<FieldSel("name", <<>>, <<>>)>>)>>)>>
SelUserById ==
    <<FieldSel("user", <<Argument("id", Number(1))>>, <<FieldSel("name", <<>>, <<>>)>>)>>
SelUserNoArg == <<FieldSel("user", <<>>, <<FieldSel("name", <<>>, <<>>)>>)>>
SelUserByVar ==
    <<FieldSel("user", <<Argument("id", Variable("x"))>>, <<FieldSel("name", <<>>, <<>>)>>)>>
SelUnknown ==
    <<FieldSel("posts", <<>>, <<FieldSel("bogus", <<>>, <<>>), FieldSel("title", <<>>, <<>>)>>)>>
SelSpread == <<FieldSel("posts", <<>>, <<FragmentSpread("PostFields")>>)>>
SelTwoRoots ==
    <<FieldSel("posts", <<>>,
               <<FieldSel("title", <<>>, <<>>),
                 FieldSel("user", <<>>, <<FieldSel("name", <<>>, <<>>)>>)>>),
      FieldSel("user", <<Argument("id", Number(1))>>, <<FieldSel("name", <<>>, <<>>)>>)>>

\* OperationDefinition: the declared variables and the selection set
Operation(vars_, sel) == [variable_definitions |-> vars_, selection_set |-> sel]
Operations ==
    {Operation({}, sel) : sel \in {SelPostsTitle, SelPostsUser, SelUserById, SelUserNoArg,
                                   SelUserByVar, SelUnknown, SelSpread, SelTwoRoots}}
    \cup {Operation({"x"}, SelUserByVar)}

\* FragmentDefinition
PostFields ==
    [name |-> "PostFields", type_condition |-> "Post",
     selection_set |-> <<FieldSel("title", <<>>, <<>>)>>]
QueryFields ==
    [name |-> "QueryFields", type_condition |-> "Query",
     selection_set |-> <<FieldSel("posts", <<>>, <<FieldSel("title", <<>>, <<>>)>>)>>]

\* ExecutableDocument: the operations in document order (DocumentOperations::
\* Single for one, Multiple otherwise) and the fragment definitions
Documents ==
    {[operations |-> ops, fragments |-> fr] :
        ops \in {s \in UNION {[1 .. n -> Operations] : n \in 1 .. MaxOps} :
                    \A i \in DOMAIN s, j \in DOMAIN s : s[i] = s[j] => i = j},
        fr \in {{}, {PostFields}, {PostFields, QueryFields}}}

\* create_field_set up to the first loop
BuilderInit ==
    /\ document \in Documents
    /\ fields = <<>>
    /\ fieldId = 0
    /\ argId = 0
    /\ todoFragments = document.fragments
    /\ todoOperations = DOMAIN document.operations
    /\ built = None
    /\ executionPlan = None

\* create_field_set, `for (_, fragment) in document.fragments`: one iteration;
\* the HashMap yields its entries in an order of its own
ResolveFragment(fragment) ==
    /\ built = None
    /\ fragment \in todoFragments
    /\ LET r == ResolveSelectionSet(fragment.selection_set, fieldId, argId, GetQuery, <<>>)
       IN  /\ fields' = r.fields
           /\ fieldId' = r.id
           /\ argId' = r.arg_id
    /\ todoFragments' = todoFragments \ {fragment}
    /\ UNCHANGED <<document, todoOperations, built, executionPlan>>
    /\ UNCHANGED <<dedupeVars, jitVars, planVars>>

\* create_field_set, `match document.operations`: the Single operation, or one
\* iteration of the loop over the HashMap of Multiple
ResolveOperation(o) ==
    /\ built = None
    /\ todoFragments = {}
    /\ o \in todoOperations
    /\ LET r == ResolveSelectionSet(document.operations[o].selection_set, fieldId, argId,
                                    GetQuery, <<>>)
       IN  /\ fields' = r.fields
           /\ fieldId' = r.id
           /\ argId' = r.arg_id
    /\ todoOperations' = todoOperations \ {o}
    /\ UNCHANGED <<document, todoFragments, built, executionPlan>>
    /\ UNCHANGED <<dedupeVars, jitVars, planVars>>

\* create_field_set returns Ok(fields) and build wraps them: Ok(QueryPlan { fields })
BuildReturn ==
    /\ built = None
    /\ todoFragments = {}
    /\ todoOperations = {}
    /\ built' = Ok([fields |-> fields])
    /\ UNCHANGED <<document, fields, fieldId, argId, todoFragments, todoOperations,
                   executionPlan>>
    /\ UNCHANGED <<dedupeVars, jitVars, planVars>>

\* the fields of the flat vector whose parent link is the field with this id,
\* in the order of the vector
ChildrenOf(id_, fs) == SelectSeq(fs, LAMBDA f : f.refs = <<id_>>)

RECURSIVE IntoChildren(_, _, _)
\* Field<Parent>::into_children. `fuel` bounds the depth of the recursion: a
\* depth beyond the number of fields means some field is its own ancestor and
\* the recursion of the code never returns; the node is then marked unfinished.
IntoChildren(self, fs, fuel) ==
    IF fuel = 0
    THEN [id |-> self.id, name |-> self.name, ir |-> self.ir, type_of |-> self.type_of,
          args |-> self.args, refs |-> <<>>, unfinished |-> TRUE]
    ELSE LET kids == ChildrenOf(self.id, fs)
             children == [i \in 1 .. Len(kids) |-> IntoChildren(kids[i], fs, fuel - 1)]
         IN  [id |-> self.id, name |-> self.name, ir |-> self.ir,
              type_of |-> self.type_of, args |-> self.args,
              refs |-> IF children = <<>> THEN <<>> ELSE <<children>>,
              unfinished |-> \E i \in 1 .. Len(children) : children[i].unfinished]

ExecutionPlanNewNoFilter(parent) ==
    [parent |-> parent,
     children |-> [i \in 1 .. Len(parent) |-> IntoChildren(parent[i], parent, Len(parent) + 1)]]
\* ExecutionPlan::new: the fields without a parent link, each turned into its
\* subtree
ExecutionPlanNew(parent) ==
    LET roots == SelectSeq(parent, LAMBDA f : f.refs = <<>>) IN
    [parent |-> parent,
     children |-> [i \in 1 .. Len(roots) |-> IntoChildren(roots[i], parent, Len(parent) + 1)]]

\* the flat vector of a built plan is handed to ExecutionPlan::new
NewExecutionPlan ==
    /\ built # None
    /\ executionPlan = None
    /\ executionPlan' = Ok(ExecutionPlanNew(built.val.fields))
    /\ UNCHANGED <<document, fields, fieldId, argId, todoFragments, todoOperations,
                   built>>
    /\ UNCHANGED <<dedupeVars, jitVars, planVars>>

BuilderNext ==
    \/ \E fragment \in todoFragments : ResolveFragment(fragment)
    \/ \E o \in todoOperations : ResolveOperation(o)
    \/ BuildReturn
    \/ NewExecutionPlan

\* build has not been called: the document of the test test_from_document
BuilderIdle ==
    /\ BuilderInit
    /\ document = [operations |-> <<Operation({}, SelPostsUser)>>, fragments |-> {}]

(***************************************************************************)
(* GeneralPlan::from_operation (src/query_plan/plan.rs)                    *)
(***************************************************************************)

\* blueprint::Type: NamedType { name } or ListType { of_type }
NamedType(name) == [name |-> name, list |-> FALSE]
ListType(name) == [name |-> name, list |-> TRUE]
\* a field of an object type definition; resolver stands for field.resolver.is_some()
FieldDefinition(name, of_type, resolver) ==
    [name |-> name, of_type |-> of_type, resolver |-> resolver]
\* blueprint::Definition
ObjectTypeDefinition(name, fs) == [kind |-> "Object", name |-> name, fields |-> fs]
EnumTypeDefinition(name) == [kind |-> "Enum", name |-> name, fields |-> <<>>]

\* scalar::is_scalar: the built-in scalar type names
IsScalarType(name) == name \in {"String", "Int", "Float", "ID", "Boolean"}

QueryDefinition(r) ==
    ObjectTypeDefinition("Query",
        <<FieldDefinition("posts", ListType("Post"), r),
          FieldDefinition("version", NamedType("String"), FALSE)>>)
PostDefinition(r) ==
    ObjectTypeDefinition("Post",
        <<FieldDefinition("id", NamedType("Int"), FALSE),
          FieldDefinition("user", NamedType("User"), r),
          FieldDefinition("tags", ListType("String"), FALSE)>>)
\* User with a scalar field only, or with a field that refers back to Post
UserDefinition(cyclic, r) ==
    ObjectTypeDefinition("User",
        <<FieldDefinition("name", NamedType("String"), FALSE)>> \o
        (IF cyclic THEN <<FieldDefinition("posts", ListType("Post"), r)>>
                   ELSE <<FieldDefinition("status", NamedType("Status"), r)>>))

\* the lists of type definitions from_operation is called with
DefinitionLists ==
    {<<QueryDefinition(a), PostDefinition(b), UserDefinition(cyclic, c),
       EnumTypeDefinition("Status")>> :
          a \in BOOLEAN, b \in BOOLEAN, c \in BOOLEAN, cyclic \in BOOLEAN}
    \cup
    {<<ObjectTypeDefinition("Query",
          <<FieldDefinition("version", NamedType("String"), a),
            FieldDefinition("posts", ListType("Post"), b)>>)>> :
          a \in BOOLEAN, b \in BOOLEAN}

\* definitions.iter().find(|def| def.name() == name)
FindDefinition(defs, name) ==
    LET hits == {i \in 1 .. Len(defs) : defs[i].name = name} IN
    IF hits = {} THEN <<>>
    ELSE <<defs[CHOOSE i \in hits : \A j \in hits : i <= j]>>

\* the fields the loop of from_operation runs over: those of an object type
\* definition, none for any other or for a missing definition
TypeFields(defs, name) ==
    LET definition == FindDefinition(defs, name) IN
    IF definition # <<>> /\ definition[1].kind = "Object"
    THEN definition[1].fields ELSE <<>>

\* FieldTree
FieldTree(id, kind, children) ==
    [field_plan_id |-> id, entry |-> [kind |-> kind, children |-> children]]

\* FieldTree::to_list
ToList(tree) ==
    [tree EXCEPT !.entry.kind =
        IF @ \in {"Scalar", "ScalarList"} THEN "ScalarList" ELSE "CompoundList"]

\* FieldTree::with_field_plan_id
WithFieldPlanId(tree, id) == [tree EXCEPT !.field_plan_id = id]

\* the loop's match on field.of_type followed by children.insert
InsertChild(children, field, plan, id) ==
    Append(children,
           [name |-> field.name,
            tree |-> WithFieldPlanId(IF field.of_type.list THEN ToList(plan) ELSE plan, id)])

\* `id` of the loop body: the id of the FieldPlan pushed for a field with a
\* resolver (field_plans.len()), None otherwise. Plans past MaxPlans are not
\* told apart.
NewId(field, plans) == IF field.resolver THEN <<Len(plans)>> ELSE <<>>

\* field_plans after the loop body's push
PushFieldPlan(field, plans, current_field_plan_id) ==
    IF field.resolver /\ Len(plans) < MaxPlans
    THEN Append(plans, [id |-> Len(plans), depends_on |-> current_field_plan_id])
    ELSE plans

\* a call of FieldTree::from_operation: its arguments, the position of its
\* loop, the children built so far and the id of the field it recurses for
Frame(name, current_field_plan_id) ==
    [name |-> name, current_field_plan_id |-> current_field_plan_id,
     i |-> 1, children |-> <<>>, id |-> <<>>]

\* A call stack deeper than MaxDepth keeps its innermost MaxDepth calls: with
\* at most MaxDepth object types a deeper stack holds a type twice, and the
\* outer calls are not returned to.
Push(stack, frame) ==
    IF Len(stack) < MaxDepth THEN Append(stack, frame)
    ELSE Append(Tail(stack), frame)

PlanInit ==
    /\ definitions \in DefinitionLists
    /\ callStack = <<>>
    /\ fieldPlans = <<>>
    /\ generalPlan = None

\* GeneralPlan::from_operation up to the call of FieldTree::from_operation
GeneralPlanFromOperation ==
    /\ callStack = <<>> /\ generalPlan = None
    /\ callStack' = <<Frame("Query", <<>>)>>
    /\ fieldPlans' = <<>>
    /\ UNCHANGED <<definitions, generalPlan>>
    /\ UNCHANGED <<dedupeVars, jitVars, builderVars>>

\* one iteration of the loop for a field of scalar type
ScalarField ==
    /\ callStack # <<>>
    /\ LET top == callStack[Len(callStack)]
           fs == TypeFields(definitions, top.name) IN
       /\ top.i <= Len(fs)
       /\ IsScalarType(fs[top.i].of_type.name)
       /\ LET field == fs[top.i]
              id == NewId(field, fieldPlans) IN
          /\ fieldPlans' = PushFieldPlan(field, fieldPlans, top.current_field_plan_id)
          /\ callStack' = [callStack EXCEPT ![Len(callStack)] =
                [top EXCEPT !.i = @ + 1,
                            !.children = InsertChild(@, field,
                                             FieldTree(id, "Scalar", <<>>), id)]]
    /\ UNCHANGED <<definitions, generalPlan>>
    /\ UNCHANGED <<dedupeVars, jitVars, builderVars>>

\* one iteration of the loop for a field of any other type, up to the
\* recursive call Self::from_operation(id.or(current_field_plan_id), ..)
RecursiveCall ==
    /\ callStack # <<>>
    /\ LET top == callStack[Len(callStack)]
           fs == TypeFields(definitions, top.name) IN
       /\ top.i <= Len(fs)
       /\ ~IsScalarType(fs[top.i].of_type.name)
       /\ LET field == fs[top.i]
              id == NewId(field, fieldPlans) IN
          /\ fieldPlans' = PushFieldPlan(field, fieldPlans, top.current_field_plan_id)
          /\ callStack' =
                Push([callStack EXCEPT ![Len(callStack)] = [top EXCEPT !.id = id]],
                     Frame(field.of_type.name,
                           IF id # <<>> THEN id ELSE top.current_field_plan_id))
    /\ UNCHANGED <<definitions, generalPlan>>
    /\ UNCHANGED <<dedupeVars, jitVars, builderVars>>

\* the loop is over: the call returns its Compound tree, to the iteration of
\* the caller that awaits it or, for the outermost call, to GeneralPlan
Return ==
    /\ callStack # <<>>
    /\ LET n == Len(callStack)
           top == callStack[n]
           fs == TypeFields(definitions, top.name)
           plan == FieldTree(<<>>, "Compound", top.children) IN
       /\ top.i > Len(fs)
       /\ IF n = 1
          THEN /\ callStack' = <<>>
               /\ generalPlan' = Ok([fields |-> plan, field_plans |-> fieldPlans])
          ELSE LET caller == callStack[n - 1]
                   field == TypeFields(definitions, caller.name)[caller.i] IN
               /\ callStack' = [SubSeq(callStack, 1, n - 1) EXCEPT ![n - 1] =
                     [caller EXCEPT !.i = @ + 1, !.id = <<>>,
                                    !.children = InsertChild(@, field, plan, caller.id)]]
               /\ UNCHANGED generalPlan
    /\ UNCHANGED <<definitions, fieldPlans>>
    /\ UNCHANGED <<dedupeVars, jitVars, builderVars>>

PlanNext ==
    \/ GeneralPlanFromOperation
    \/ ScalarField
    \/ RecursiveCall
    \/ Return

\* from_operation has not been called
PlanIdle ==
    /\ PlanInit
    /\ definitions = <<QueryDefinition(TRUE), PostDefinition(FALSE),
                       UserDefinition(FALSE, FALSE), EnumTypeDefinition("Status")>>

JitNext ==
    \/ ExecInit
    \/ \E id \in DOMAIN tasks : \E r \in IRResults(id[1]) : IrDone(id, r)
    \/ \E id \in DOMAIN tasks : JoinDone(id)
    \/ ExecDrop
    \/ SynthesizeResponse

\* the other component stays in its initial state
DedupeIdle == DedupeInit /\ ~persist
JitIdle ==
    /\ JitInit
    /\ isList = [f \in Fields |-> f = 1]
    /\ hasIr = [f \in Fields |-> f # 4]
    /\ nullable = [f \in Fields |-> TRUE]
    /\ skipped = [f \in Fields |-> FALSE]

DedupeNext ==
    \/ \E c \in Calls, k \in Keys : DedupeCall(c, k)
    \/ \E c \in Calls : OwnerFinish(c)
    \/ \E c \in Calls : WaiterRecv(c)
    \/ \E c \in Calls : Cancel(c)

DedupeSpecInit == DedupeInit /\ JitIdle /\ BuilderIdle /\ PlanIdle

DedupeSpec == DedupeSpecInit /\ [][DedupeNext]_vars

JitSpecInit == JitInit /\ DedupeIdle /\ BuilderIdle /\ PlanIdle

JitSpec == JitSpecInit /\ [][JitNext]_vars

BuilderSpecInit == BuilderInit /\ DedupeIdle /\ JitIdle /\ PlanIdle

BuilderSpec == BuilderSpecInit /\ [][BuilderNext]_vars

PlanSpecInit == PlanInit /\ DedupeIdle /\ JitIdle /\ BuilderIdle

\* from_operation is one synchronous call: it runs on while it can take a step
PlanSpec == PlanSpecInit /\ [][PlanNext]_vars /\ WF_vars(PlanNext)

(***************************************************************************)
(* Properties of Dedupe                                                    *)
(***************************************************************************)

\* C1: when a call f starts with no other call for its key in flight, and a call
\* c for the same key starts while f is in flight, and neither is cancelled,
\* then only f's closure runs (once), c's never, and c returns f's value;
\* for persist = TRUE and persist = FALSE alike.
C1_OverlappingCallsComputeOnce ==
    \A f \in Calls, c \in Calls :
        ( /\ f # c
          /\ found[f] # "none" /\ inflight[f] = {}
          /\ f \in inflight[c]
          /\ phase[f] # "dropped" /\ phase[c] # "dropped" )
        => /\ ran[f] = 1
           /\ ran[c] = 0
           /\ phase[c] # "panicked"
           /\ (phase[c] = "done" =>
                 /\ phase[f] = "done"
                 /\ result[c] = result[f]
                 /\ result[f] \in Computed(f))

\* three overlapping calls, all returned, without persistence
C1_Witness ==
    /\ ~persist
    /\ \E f \in Calls :
         /\ inflight[f] = {} /\ phase[f] = "done"
         /\ \A c \in Calls \ {f} : f \in inflight[c] /\ phase[c] = "done"

\* C2: a call that finds the Pending entry of a cancelled owner (dead weak
\* sender) becomes the owner itself, runs its own closure once, is never parked
\* on the dead channel, and returns its own value.
C2_NewOwnerAfterCancel ==
    \A c \in Calls :
        found[c] = "PendingDead" =>
            /\ phase[c] \in {"Init", "done", "dropped"}
            /\ sub[c] = 0
            /\ ran[c] = 1
            /\ (phase[c] = "done" => result[c] \in Computed(c))

C2_Witness ==
    \E c \in Calls, o \in Calls :
        /\ phase[o] = "dropped" /\ ran[o] = 1 /\ ckey[o] = ckey[c]
        /\ found[c] = "PendingDead" /\ phase[c] = "done"

\* C3: for each key at most one live call is in the owner role (computing).
C3_AtMostOneOwnerPerKey ==
    \A k \in Keys :
        Cardinality({c \in Calls : phase[c] = "Init" /\ ckey[c] = k}) <= 1

\* a second owner for a key whose previous owner was dropped, and one whose
\* previous owner completed
C3_Witness ==
    \E a \in Calls, b \in Calls, c \in Calls :
        /\ ckey[a] = ckey[b] /\ ckey[b] = ckey[c]
        /\ phase[a] = "dropped" /\ ran[a] = 1
        /\ phase[b] = "done" /\ ran[b] = 1
        /\ phase[c] = "Init"

\* C11: with persist = true, a call that starts after dedupe has returned a
\* value v for its key returns that same v at once and never invokes its own
\* closure; this holds for every such later call.
C11_PersistedValueReused ==
    persist =>
        \A c \in Calls :
            prior[c] # {} =>
                /\ phase[c] = "done"
                /\ ran[c] = 0
                /\ prior[c] = {result[c]}

\* an owner completed, then two further calls for the key were served from the
\* cache
C11_Witness ==
    /\ persist
    /\ \E o \in Calls, c \in Calls, d \in Calls :
         /\ c # d /\ o # c /\ o # d
         /\ phase[o] = "done" /\ ran[o] = 1
         /\ prior[c] = {result[o]} /\ prior[d] = {result[o]}
         /\ phase[c] = "done" /\ phase[d] = "done"
         /\ found[c] = "Ready" /\ found[d] = "Ready"

C13_ErrorBroadcastToWaiters ==
    \A c \in Calls :
        (sub[c] # 0 /\ IsErr(sent[sub[c]])) =>
            /\ ran[c] = 0
            /\ phase[c] \in {"Await", "done", "dropped"}
            /\ (phase[c] = "done" => result[c] = ErrOf(sub[c]))
            /\ result[sub[c]] = ErrOf(sub[c])

\* an owner failed and both waiters on its key returned the owner's error
C13_Witness ==
    \E o \in Calls :
        /\ phase[o] = "done" /\ IsErr(result[o])
        /\ \A c \in Calls \ {o} :
              /\ sub[c] = o /\ phase[c] = "done" /\ result[c] = ErrOf(o)
              /\ ran[c] = 0

(***************************************************************************)
(* Properties of the executor and the synthesizer                          *)
(***************************************************************************)

\* the execute() call that spawned the branch id (for a non-root field)
ParentTask(id) ==
    <<Parent(id[1]),
      IF isList[Parent(id[1])] THEN SubSeq(id[2], 1, Len(id[2]) - 1) ELSE id[2]>>

\* the branches spawned together with the branch id
SiblingBranches(id) ==
    IF Parent(id[1]) = 0 THEN {<<r, <<>>>> : r \in Range(Roots)}
    ELSE LET pid == ParentTask(id) IN
         {<<k.f, k.pos>> : k \in Kids(pid[1], pid[2], tasks[pid].path, tasks[pid].res)}

\* C4: root fields posts (A) and b (B) are siblings; when A's resolver fails and
\* B's succeeds the synthesized result carries B's data (next to A's error) and
\* is not A's error alone.
C4_SiblingDataSurvivesError ==
    ( /\ response # None
      /\ \A f \in Fields : ~Skip(f)
      /\ tasks[<<1, <<>>>>].res.tag = "Err"
      /\ tasks[<<2, <<>>>>].res.tag = "Ok" )
    => /\ response.tag = "Ok"
       /\ "b" \in DOMAIN response.val.o
       /\ response.val.o["b"] = tasks[<<2, <<>>>>].res.val

\* C5: posts: [Post], user: User (nullable), name: String! resolved to null in
\* the only list element: a ValueRequired error at name, user emitted as null,
\* its sibling heading and the root sibling b keep their values.
C5_NullBubblesToNullableAncestor ==
    ( /\ response # None
      /\ \A f \in Fields : ~Skip(f)
      /\ isList[1] /\ hasIr[3] /\ ~nullable[5] /\ nullable[3]
      /\ tasks[<<1, <<>>>>].res = Ok(Posts(1))
      /\ tasks[<<2, <<>>>>].res.tag = "Ok"
      /\ tasks[<<3, <<0>>>>].res = Ok(UserObj)
      /\ tasks[<<5, <<0>>>>].res = Ok(Null) )
    => /\ response.tag = "Ok"
       /\ response.val.o["posts"].a[1].o["user"] = Null
       /\ response.val.o["posts"].a[1].o["heading"] = Num(0)
       /\ response.val.o["b"] = Num(1)

\* C6: a branch exists (its IR evaluation has started) only when the execute()
\* call of its parent field got Ok from the IR, and its context value is the
\* parent's value, or the element at the branch's index for a list parent.
C6_ParentBeforeChild ==
    \A id \in DOMAIN tasks :
        Parent(id[1]) # 0 =>
            /\ isList[Parent(id[1])] => Len(id[2]) > 0
            /\ ParentTask(id) \in DOMAIN tasks
            /\ LET pt == tasks[ParentTask(id)] IN
               /\ pt.pc \in {"join", "done"}
               /\ pt.res.tag = "Ok"
               /\ tasks[id].ctx =
                    IF isList[Parent(id[1])]
                    THEN pt.res.val.a[id[2][Len(id[2])] + 1]
                    ELSE pt.res.val

\* name is being evaluated under user, at the second element of posts
C6_Witness ==
    /\ <<5, <<1>>>> \in DOMAIN tasks
    /\ tasks[<<5, <<1>>>>].pc = "eval"
    /\ tasks[<<5, <<1>>>>].ctx = UserObj
    /\ tasks[<<3, <<1>>>>].ctx = PostElem(1)

\* C7: whenever the Store holds an entry for a field at a data path, every
\* branch of a descendant field under that path has finished and, when the
\* descendant has an IR, has its own Store entry.
C7_StoreWriteAfterDescendants ==
    \A k \in DOMAIN store : \A id \in DOMAIN tasks :
        (IsDescendant(id[1], k[1]) /\ IsPrefix(k[2], id[2])) =>
            /\ tasks[id].pc = "done"
            /\ hasIr[id[1]] => <<id[1], tasks[id].path>> \in DOMAIN store

\* posts is stored, with grandchildren stored under both elements
C7_Witness ==
    /\ <<1, <<>>>> \in DOMAIN store
    /\ <<5, <<0>>>> \in DOMAIN store
    /\ <<5, <<1>>>> \in DOMAIN store
    /\ <<2, <<>>>> \notin DOMAIN store

\* C8: Store::set is called at most once for every (FieldId, DataPath).
C8_StoreSetAtMostOnce ==
    \A k \in DOMAIN setCount : setCount[k] <= 1

\* a finished run with two list elements and a stored sibling root
C8_Witness ==
    /\ RootsDone
    /\ {<<1, <<>>>>, <<2, <<>>>>, <<3, <<0>>>>, <<3, <<1>>>>, <<5, <<0>>>>, <<5, <<1>>>>}
         \subseteq DOMAIN setCount

\* C9: a branch whose IR returned an error has Err stored at its (FieldId,
\* DataPath) and returned Ok(()); the run cannot get stuck, and when it has
\* finished every sibling branch and every other list-element branch was
\* evaluated and stored.
C9_ErrorStoredSiblingsRun ==
    /\ \A id \in DOMAIN tasks :
         tasks[id].res.tag = "Err" =>
            /\ tasks[id].pc = "done" /\ tasks[id].ret = "Ok"
            /\ <<id[1], tasks[id].path>> \in DOMAIN store
            /\ store[<<id[1], tasks[id].path>>] = tasks[id].res
            /\ RootsDone =>
                 \A s \in SiblingBranches(id) :
                    /\ s \in DOMAIN tasks
                    /\ tasks[s].pc = "done" /\ tasks[s].ret = "Ok"
                    /\ hasIr[s[1]] =>
                         /\ tasks[s].res # None
                         /\ <<s[1], tasks[s].path>> \in DOMAIN store
                         /\ store[<<s[1], tasks[s].path>>] = tasks[s].res
    /\ (started /\ ~RootsDone /\ ~dropped) =>
         \E id \in DOMAIN tasks :
            \/ tasks[id].pc = "eval"
            \/ tasks[id].pc = "join" /\ JoinReady(id)

\* user failed for element 0, the branch of element 1 went on to store user
\* and name, and the sibling root b was stored
C9_Witness ==
    /\ RootsDone
    /\ hasIr[3]
    /\ <<3, <<1>>>> \in DOMAIN tasks
    /\ {<<3, <<0>>>>, <<3, <<1>>>>, <<5, <<1>>>>, <<2, <<>>>>} \subseteq DOMAIN store
    /\ store[<<3, <<0>>>>].tag = "Err"
    /\ store[<<3, <<1>>>>].tag = "Ok"
    /\ store[<<2, <<>>>>].tag = "Ok"

\* C10: below a branch whose IR returned an error no descendant branch exists
\* at that data path and the Store has no entry for a descendant there.
C10_ErrorShortCircuitsDescendants ==
    \A id \in DOMAIN tasks :
        tasks[id].res.tag = "Err" =>
            /\ \A d \in DOMAIN tasks :
                 ~(IsDescendant(d[1], id[1]) /\ IsPrefix(id[2], d[2]))
            /\ \A k \in DOMAIN store :
                 ~(IsDescendant(k[1], id[1]) /\ IsPrefix(tasks[id].path, k[2]))

\* user failed for element 0, and the branch of element 1 stored name
C10_Witness ==
    /\ RootsDone
    /\ <<3, <<1>>>> \in DOMAIN tasks
    /\ <<3, <<0>>>> \in DOMAIN tasks
    /\ tasks[<<3, <<0>>>>].res.tag = "Err"
    /\ <<5, <<1>>>> \in DOMAIN store
    /\ <<5, <<0>>>> \notin DOMAIN tasks

\* C14: a field without IR never gets a Store entry of its own, and once its
\* execute() call has returned each of its children that has an IR is being or
\* has been evaluated at the same data path, with context value the member of
\* the parent value named after the IR-less field.
C14_IrLessFieldForwardsToChildren ==
    \A id \in DOMAIN tasks :
        ~hasIr[id[1]] =>
            /\ \A k \in DOMAIN store : k[1] # id[1]
            /\ \A c \in Range(Children(id[1])) :
                  (hasIr[c] /\ tasks[id].ctx.t = "obj"
                            /\ Name(id[1]) \in DOMAIN tasks[id].ctx.o) =>
                      /\ <<c, id[2]>> \in DOMAIN tasks
                      /\ tasks[<<c, id[2]>>].path = tasks[id].path
                      /\ tasks[<<c, id[2]>>].ctx = tasks[id].ctx.o[Name(id[1])]

\* C15: once the IR of a list-typed field has returned an array of length n,
\* every child field has exactly n branches below it, one per index i in
\* 0 .. n-1, with context value the element i and data path the field's data
\* path extended by i, and the IR of a child is evaluated once per such path.
C15_OneChildBranchPerElement ==
    \A id \in DOMAIN tasks :
        (isList[id[1]] /\ tasks[id].res.tag = "Ok" /\ tasks[id].res.val.t = "arr") =>
            LET arr == tasks[id].res.val.a IN
            \A c \in Range(Children(id[1])) :
                /\ \A i \in 0 .. Len(arr) - 1 :
                      LET kid == <<c, Append(id[2], i)>> IN
                      /\ kid \in DOMAIN tasks
                      /\ tasks[kid].ctx = arr[i + 1]
                      /\ tasks[kid].path = Append(tasks[id].path, i)
                      /\ (hasIr[c] /\ tasks[kid].pc # "eval") =>
                            /\ <<c, tasks[kid].path>> \in DOMAIN evalCount
                            /\ evalCount[<<c, tasks[kid].path>>] = 1
                      /\ (hasIr[c] /\ tasks[kid].pc = "eval") =>
                            <<c, tasks[kid].path>> \notin DOMAIN evalCount
                /\ Cardinality({d \in DOMAIN tasks :
                                  /\ d[1] = c
                                  /\ Len(d[2]) = Len(id[2]) + 1
                                  /\ IsPrefix(id[2], d[2])}) = Len(arr)

\* posts returned two elements; user was evaluated for both, each with its own
\* element and index
C15_Witness ==
    /\ RootsDone /\ isList[1] /\ hasIr[3]
    /\ tasks[<<1, <<>>>>].res = Ok(Posts(2))
    /\ <<3, <<1>>>> \in DOMAIN tasks
    /\ tasks[<<3, <<0>>>>].ctx = PostElem(0) /\ tasks[<<3, <<0>>>>].path = <<0>>
    /\ tasks[<<3, <<1>>>>].ctx = PostElem(1) /\ tasks[<<3, <<1>>>>].path = <<1>>
    /\ <<3, <<0>>>> \in DOMAIN evalCount /\ <<3, <<1>>>> \in DOMAIN evalCount
    /\ tasks[<<4, <<1>>>>].ctx = PostElem(1)

RECURSIVE SelectsUnknownField(_, _)
\* some field selected in the selection set, at any depth, is not in the field
\* index for the type it is selected on
SelectsUnknownField(items, type) ==
    \E i \in 1 .. Len(items) :
        /\ items[i].kind = "Field"
        /\ \/ GetField(type, items[i].name) = <<>>
           \/ /\ GetField(type, items[i].name) # <<>>
              /\ SelectsUnknownField(items[i].selection_set,
                                     GetField(type, items[i].name)[1].of_type)

RECURSIVE OmitsRequiredArgument(_, _)
\* some selected field leaves out an argument its definition requires
OmitsRequiredArgument(items, type) ==
    \E i \in 1 .. Len(items) :
        /\ items[i].kind = "Field"
        /\ GetField(type, items[i].name) # <<>>
        /\ LET def == GetField(type, items[i].name)[1] IN
           \/ \E a \in DOMAIN def.args :
                /\ def.args[a].required
                /\ \A j \in 1 .. Len(items[i].arguments) : items[i].arguments[j].name # a
           \/ OmitsRequiredArgument(items[i].selection_set, def.of_type)

RECURSIVE UsesUndeclaredVariable(_, _)
\* some argument value refers to a variable that is not among the declared ones
UsesUndeclaredVariable(items, declared) ==
    \E i \in 1 .. Len(items) :
        /\ items[i].kind = "Field"
        /\ \/ \E j \in 1 .. Len(items[i].arguments) :
                /\ items[i].arguments[j].value.kind = "Variable"
                /\ items[i].arguments[j].value.name \notin declared
           \/ UsesUndeclaredVariable(items[i].selection_set, declared)

\* the fragment definition of the document a spread refers to
FragmentNamed(name) == CHOOSE fr \in document.fragments : fr.name = name

FieldNames(fs) == [i \in 1 .. Len(fs) |-> fs[i].name]

\* C17: when an operation of the document selects a field that the field index
\* does not have for the current type, build returns an error (and no plan).
C17_UnknownFieldIsAnError ==
    ( /\ built # None
      /\ \E o \in DOMAIN document.operations :
            SelectsUnknownField(document.operations[o].selection_set, GetQuery) )
    => built.tag = "Err"

\* C18: for a document with one operation, every field the operation selects at
\* the top level that contains a fragment spread has, in the built plan, the
\* fields selected by that fragment (those its output type has) as children:
\* plan fields whose parent link is the id of the containing field.
C18_FragmentSpreadInlined ==
    ( /\ built # None
      /\ Len(document.operations) = 1 )
    => \A i \in 1 .. Len(document.operations[1].selection_set) :
          LET g == document.operations[1].selection_set[i] IN
          (g.kind = "Field" /\ GetField(GetQuery, g.name) # <<>>) =>
             \A j \in 1 .. Len(g.selection_set) :
                (/\ g.selection_set[j].kind = "FragmentSpread"
                 /\ \E fr \in document.fragments : fr.name = g.selection_set[j].name) =>
                   LET sel == FragmentNamed(g.selection_set[j].name).selection_set
                       type == GetField(GetQuery, g.name)[1].of_type
                   IN  \A h \in 1 .. Len(sel) :
                          (sel[h].kind = "Field" /\ GetField(type, sel[h].name) # <<>>) =>
                             /\ built.tag = "Ok"
                             /\ \E p \in 1 .. Len(built.val.fields),
                                   q \in 1 .. Len(built.val.fields) :
                                   /\ built.val.fields[p].name = g.name
                                   /\ built.val.fields[p].refs = <<>>
                                   /\ built.val.fields[q].name = sel[h].name
                                   /\ built.val.fields[q].refs = <<built.val.fields[p].id>>

\* C19: for a document with several operations the built plan holds the fields
\* of the first operation of the document and of no other.
C19_FirstOperationOnly ==
    ( /\ built # None
      /\ built.tag = "Ok"
      /\ Len(document.operations) > 1 )
    => FieldNames(built.val.fields) =
         FieldNames(ResolveSelectionSet(document.operations[1].selection_set, 0, 0,
                                        GetQuery, <<>>).fields)

\* C20: build fails with an error when a selected field omits an argument its
\* definition requires, and when an argument value refers to a variable the
\* operation does not declare.
C20_ArgumentsValidated ==
    ( /\ built # None
      /\ \E o \in DOMAIN document.operations :
            \/ OmitsRequiredArgument(document.operations[o].selection_set, GetQuery)
            \/ UsesUndeclaredVariable(document.operations[o].selection_set,
                                      document.operations[o].variable_definitions) )
    => built.tag = "Err"

RECURSIVE Preorder(_)
\* the ids of a sequence of Field<Children> trees, every node before its subtree
Preorder(nodes) ==
    IF nodes = <<>> THEN <<>>
    ELSE <<Head(nodes).id>>
         \o (IF Head(nodes).refs = <<>> THEN <<>> ELSE Preorder(Head(nodes).refs[1]))
         \o Preorder(Tail(nodes))

RECURSIVE ChildLinks(_)
\* the (parent id, child id) pairs of a sequence of Field<Children> trees
ChildLinks(nodes) ==
    IF nodes = <<>> THEN {}
    ELSE (IF Head(nodes).refs = <<>> THEN {}
          ELSE {<<Head(nodes).id, Head(nodes).refs[1][i].id>> :
                   i \in 1 .. Len(Head(nodes).refs[1])}
               \cup ChildLinks(Head(nodes).refs[1]))
         \cup ChildLinks(Tail(nodes))

FieldIds(fs) == [i \in 1 .. Len(fs) |-> fs[i].id]

\* C21: the FieldIds of a returned plan are 0 .. n-1 in the order of the flat
\* vector (depth-first, left to right), and the plan is the one the walk of the
\* document's first operation from fresh counters gives, so that every build of
\* the document returns the same ids, names and parent links.
C21_DenseDeterministicIds ==
    built # None =>
        /\ built.tag = "Ok"
        /\ \A i \in 1 .. Len(built.val.fields) : built.val.fields[i].id = i - 1
        /\ Len(document.operations) = 1 =>
             built.val.fields =
                ResolveSelectionSet(document.operations[1].selection_set, 0, 0,
                                    GetQuery, <<>>).fields

\* C22: in a built plan every parent link names a field of the plan with a
\* strictly smaller FieldId (so the links form a forest), and the conversion to
\* the children view returns with every subtree finished.
C22_ParentLinksFormForest ==
    /\ built # None =>
         \A i \in 1 .. Len(built.val.fields) :
            built.val.fields[i].refs # <<>> =>
               /\ built.val.fields[i].refs[1] < built.val.fields[i].id
               /\ \E j \in 1 .. Len(built.val.fields) :
                     built.val.fields[j].id = built.val.fields[i].refs[1]
    /\ executionPlan # None =>
         \A i \in 1 .. Len(executionPlan.val.children) :
            ~executionPlan.val.children[i].unfinished

\* a plan of three levels under posts was built and converted
C22_Witness ==
    /\ executionPlan # None
    /\ \E i \in 1 .. Len(built.val.fields), j \in 1 .. Len(built.val.fields) :
          /\ built.val.fields[i].name = "name"
          /\ built.val.fields[i].refs = <<built.val.fields[j].id>>
          /\ built.val.fields[j].name = "user"
          /\ built.val.fields[j].refs # <<>>

\* C29: the children view is the inverse of the parent links: its top level is
\* the fields without a parent link, its parent-child pairs are exactly the
\* parent links, every field occurs once, and roots and children come in the
\* order of the flat vector.
C29_ChildrenViewInvertsParentLinks ==
    executionPlan # None =>
        LET fs == executionPlan.val.parent
            tree == executionPlan.val.children
        IN  /\ FieldIds(tree) = FieldIds(SelectSeq(fs, LAMBDA f : f.refs = <<>>))
            /\ ChildLinks(tree) =
                 {<<fs[i].refs[1], fs[i].id>> : i \in {j \in 1 .. Len(fs) : fs[j].refs # <<>>}}
            /\ Preorder(tree) = FieldIds(fs)
            /\ \A i \in 1 .. Len(fs), j \in 1 .. Len(fs) : fs[i].id = fs[j].id => i = j

\* two roots, the first with two children and a grandchild
C29_Witness ==
    /\ executionPlan # None
    /\ Len(executionPlan.val.children) = 2
    /\ Len(executionPlan.val.parent) = 6
    /\ Len(executionPlan.val.children[1].refs[1]) = 2
    /\ executionPlan.val.children[1].refs[1][2].refs # <<>>

(***************************************************************************)
(* Properties of the synthesized response                                  *)
(***************************************************************************)

\* the positions (list indices on the way down) a field can be emitted at
Positions(f) ==
    IF isList[1] /\ IsDescendant(f, 1) THEN {<<i>> : i \in 0 .. MaxLen - 1} ELSE {<<>>}

\* position of the parent of a field emitted at pos
ParentPos(f, pos) ==
    IF isList[Parent(f)] /\ Len(pos) > 0 THEN SubSeq(pos, 1, Len(pos) - 1) ELSE pos

RECURSIVE ValueAt(_, _)
\* the output object of the response that holds field f at pos (NoVal if the
\* response has none)
HolderOf(f, pos) ==
    IF Parent(f) = 0 THEN response.val
    ELSE LET pv == ValueAt(Parent(f), ParentPos(f, pos)) IN
         IF isList[Parent(f)]
         THEN IF pv.t = "arr" /\ Len(pos) > 0 /\ pos[Len(pos)] < Len(pv.a)
              THEN pv.a[pos[Len(pos)] + 1]
              ELSE NoVal
         ELSE pv

\* the value the response gives for field f at pos (NoVal if there is no key)
ValueAt(f, pos) ==
    LET h == HolderOf(f, pos) IN
    IF h.t = "obj" /\ OutputName(f) \in DOMAIN h.o THEN h.o[OutputName(f)] ELSE NoVal

RECURSIVE RawAt(_, _)
\* the upstream value of field f at pos: its Store entry, or for a field
\* without Store entries the member of the parent's upstream value under the
\* field's source name (NoVal if there is none)
RawAt(f, pos) ==
    IF Entries(f) # {}
    THEN IF <<f, pos>> \in DOMAIN store /\ store[<<f, pos>>].tag = "Ok"
         THEN store[<<f, pos>>].val
         ELSE NoVal
    ELSE IF Parent(f) = 0 THEN NoVal
    ELSE LET pr == RawAt(Parent(f), ParentPos(f, pos))
             elem == IF isList[Parent(f)]
                     THEN IF pr.t = "arr" /\ Len(pos) > 0 /\ pos[Len(pos)] < Len(pr.a)
                          THEN pr.a[pos[Len(pos)] + 1]
                          ELSE NoVal
                     ELSE pr
         IN  IF elem.t = "obj" /\ Name(f) \in DOMAIN elem.o THEN elem.o[Name(f)] ELSE NoVal

RECURSIVE ExpectedPath(_, _)
\* output names from the root field down to f, with an index segment after
\* every list field on the way
ExpectedPath(f, pos) ==
    IF f = 0 THEN <<>>
    ELSE ExpectedPath(Parent(f), ParentPos(f, pos))
         \o (IF Parent(f) # 0 /\ isList[Parent(f)] /\ Len(pos) > 0
             THEN <<PathSegmentIndex(pos[Len(pos)])>> ELSE <<>>)
         \o <<PathSegmentField(OutputName(f))>>

\* C23: a non-nullable field whose Store value is JSON null is never emitted as
\* null, whether its type is a list or not; and when that field is the first
\* root field the synthesis returns the ValueRequired error located at it.
C23_NullInNonNullableIsAnError ==
    response # None =>
        /\ \A k \in DOMAIN store :
              (~nullable[k[1]] /\ store[k] = Ok(Null)) =>
                  ~(response.tag = "Ok" /\ ValueAt(k[1], k[2]) = Null)
        /\ ( /\ ~nullable[Roots[1]] /\ ~Skip(Roots[1])
             /\ <<Roots[1], <<>>>> \in DOMAIN store
             /\ store[<<Roots[1], <<>>>>] = Ok(Null) )
           => response = Located("ValueRequired", Roots[1])

\* C24: in a synthesized response a skipped field is not a key of the output
\* object of its parent, at the root and below, at every list position.
C24_SkippedFieldOmitted ==
    (response # None /\ response.tag = "Ok") =>
        \A f \in Fields :
            Skip(f) =>
                \A pos \in Positions(f) :
                    HolderOf(f, pos).t = "obj" =>
                        OutputName(f) \notin DOMAIN HolderOf(f, pos).o

\* root b and nested heading are skipped: both list elements are emitted with
\* user but without heading, and the root object has posts only
C24_Witness ==
    /\ response # None /\ response.tag = "Ok"
    /\ Skip(2) /\ Skip(4) /\ isList[1]
    /\ DOMAIN response.val.o = {"posts"}
    /\ response.val.o["posts"].t = "arr"
    /\ Len(response.val.o["posts"].a) = 2
    /\ \A i \in 1 .. 2 : DOMAIN response.val.o["posts"].a[i].o = {"user"}

\* C27: a located error of the response carries the path of output names from
\* the root field to the failing field, root first, with a list-index segment
\* after every list field traversed.
C27_ErrorPathWithIndices ==
    (response # None /\ response.tag = "Err" /\ "path" \in DOMAIN response.err) =>
        \E f \in Fields : \E pos \in Positions(f) :
            response.err.path = ExpectedPath(f, pos)

\* C28: in a synthesized response every included field without Store entries
\* is a key, under its output name, of each output object of its parent; for a
\* scalar field the value is the member of the parent's upstream object under
\* the field's source name, and null when there is no parent value or no such
\* member.
C28_InheritedFromParentObject ==
    (response # None /\ response.tag = "Ok") =>
        \A f \in Fields :
            (Entries(f) = {} /\ ~Skip(f)) =>
                \A pos \in Positions(f) :
                    HolderOf(f, pos).t = "obj" =>
                        /\ OutputName(f) \in DOMAIN HolderOf(f, pos).o
                        /\ RawAt(f, pos) = NoVal => ValueAt(f, pos) = Null
                        /\ (IsScalar(f) /\ RawAt(f, pos) # NoVal) =>
                              ValueAt(f, pos) = RawAt(f, pos)
                        /\ (~IsScalar(f) /\ RawAt(f, pos) # NoVal) =>
                              ValueAt(f, pos).t = RawAt(f, pos).t

\* heading is inherited from the member title of the posts object, and the
\* IR-less root b, which has no parent value, is null
C28_Witness ==
    /\ response # None /\ response.tag = "Ok"
    /\ ~isList[1] /\ ~hasIr[2] /\ ~hasIr[4]
    /\ tasks[<<1, <<>>>>].res = Ok(PostElem(0))
    /\ response.val.o["posts"].t = "obj"
    /\ response.val.o["posts"].o["heading"] = Num(0)
    /\ response.val.o["b"] = Null

(***************************************************************************)
(* Properties of Dedupe: cancelled owners and the life of a cache entry    *)
(***************************************************************************)

\* C25: a call that subscribed to the channel of an owner which was then
\* cancelled does not abort on the closed channel (it goes on to complete with
\* a value).
C25_WaiterSurvivesOwnerCancel ==
    \A c \in Calls :
        (sub[c] # 0 /\ phase[sub[c]] = "dropped") => phase[c] # "panicked"

\* C26: a cache entry only changes Absent -> Pending, Pending -> Ready (persist),
\* Pending -> Absent (no persist), or Pending -> Pending when the sender of the
\* old entry is dead; so a Ready entry is never replaced or removed, and without
\* persist no Ready entry exists.
C26_EntryLifeCycle ==
    /\ [](~persist => \A k \in Keys : cache[k].tag # "Ready")
    /\ [][\A k \in Keys :
            cache'[k] # cache[k] =>
                \/ cache[k] = Absent /\ cache'[k].tag = "Pending"
                \/ /\ cache[k].tag = "Pending"
                   /\ IF cache'[k].tag = "Pending"
                      THEN cache[k].tx \notin senders
                      ELSE IF persist THEN cache'[k].tag = "Ready"
                                      ELSE cache'[k] = Absent]_vars

\* an entry went Absent -> Pending, was overwritten by the Pending of a new
\* owner after the first owner was cancelled, and became Ready
C26_Witness ==
    /\ persist
    /\ \E a \in Calls, b \in Calls :
         /\ phase[a] = "dropped" /\ ran[a] = 1 /\ ckey[a] = ckey[b]
         /\ found[b] = "PendingDead" /\ phase[b] = "done"
         /\ cache[ckey[b]] = Ready(result[b])

(***************************************************************************)
(* Properties of GeneralPlan::from_operation                               *)
(***************************************************************************)

\* C30: GeneralPlan::from_operation terminates (returns a plan) for every
\* finite list of type definitions, object types that refer to each other
\* cyclically included.
C30_FromOperationTerminates == <>(generalPlan # None)

====
